---- MODULE Spec2Model ----
(***************************************************************************)
(* Model of the migration session orchestrator of exchange-migration-web:  *)
(* the start-migration route (POST + processMigration), the shared         *)
(* helpers of lib/migration-utils (MigrationLogger, simulateMigration,     *)
(* calculateStats) and the progress route (the SSE stream and its timer).  *)
(*                                                                         *)
(* One step of the model is one macrotask of the Node event loop: a        *)
(* request handler, a timer callback or the settling of one mover call,    *)
(* each run together with the promise continuations it triggers, up to     *)
(* the next await that really suspends.                                    *)
(***************************************************************************)
EXTENDS Integers, Sequences, FiniteSets, TLC

\* ------------------------------------------------------------------ bounds
MaxRuns == 2       \* start requests accepted in one behaviour
MaxN == 2          \* longest mailboxList of a start request
MaxItems == 3      \* longest mailboxList when only the orchestrator is explored
MaxBatches == 3    \* batches one run may form (only non-positive sizes hit it)
MaxTicks == 2      \* timer callbacks of one progress stream
NumStreams == 1    \* progress streams opened in one behaviour
MaxFairRuns == 1   \* start requests accepted where progress to completion is checked
MaxValidations == 2  \* validateMailbox calls recorded in one behaviour
MaxAddressLen == 5   \* longest target address validated
MaxFileRows == 2     \* rows of an uploaded file

SessionIds == {"s1", "s2"}
RunIds == 1..MaxRuns
Streams == 1..NumStreams
None == 0

\* ------------------------------------------------- JavaScript number values
\* A JS number is an integer or NaN (BatchSize missing from the config makes
\* config.BatchSize undefined, and undefined in arithmetic is NaN).
Num(v) == [nan |-> FALSE, v |-> v]
NaN == [nan |-> TRUE, v |-> 0]

\* a + b
Add(a, b) == IF a.nan \/ b.nan THEN NaN ELSE Num(a.v + b.v)

\* a < b   (false when either side is NaN)
Lt(a, b) == ~a.nan /\ ~b.nan /\ a.v < b.v

\* Math.floor(a / b) for integers, b # 0
FloorDiv(a, b) == IF b > 0 THEN a \div b ELSE (0 - a) \div (0 - b)

\* Math.floor(i / batchSize) + 1   (0/0 and anything with NaN is NaN; i is
\* always a multiple of batchSize, so x/0 with x # 0 does not occur)
BatchNumber(i, batchSize) ==
    IF i.nan \/ batchSize.nan \/ batchSize.v = 0 THEN NaN
    ELSE Num(FloorDiv(i.v, batchSize.v) + 1)

Min(a, b) == IF a < b THEN a ELSE b
Max(a, b) == IF a > b THEN a ELSE b

\* ToIntegerOrInfinity followed by the clamping of Array.prototype.slice
RelIndex(x, len) ==
    IF x.nan THEN 0
    ELSE IF x.v < 0 THEN Max(len + x.v, 0) ELSE Min(x.v, len)

SliceEndOffByOne(list, start, end) ==
    LET k == RelIndex(start, Len(list))
        final == RelIndex(Add(end, Num(1)), Len(list))
    IN  IF final > k THEN SubSeq(list, k + 1, final) ELSE << >>

\* Array.prototype.slice(start, end)
Slice(list, start, end) ==
    LET k == RelIndex(start, Len(list))
        final == RelIndex(end, Len(list))
    IN  IF final > k THEN SubSeq(list, k + 1, final) ELSE << >>

Range(seq) == {seq[k] : k \in 1..Len(seq)}

\* --------------------------------------------------------- migration-utils
\* A LogEntry: level, the message (its fixed text and the numbers put in it)
\* and the mailbox it is about (None when the call passes no mailboxId).
LogEntry(level, message, args, mailboxId) ==
    [level |-> level, message |-> message, args |-> args, mailboxId |-> mailboxId]

\* MigrationLogger.log: push the entry on the logger's array
Log(logs, level, message, args, mailboxId) ==
    Append(logs, LogEntry(level, message, args, mailboxId))

\* What one call of connector.startMigration can do to simulateMigration:
\* resolve with success, resolve with an error, or reject.
MoverOutcomes == {"success", "failure", "throws"}

MoverErrorText == "Simulated migration failure - mailbox locked"
ThrownErrorText == "mover exception"

\* simulateMigration: the MigrationResult built from a resolved mover call
\* (mailboxes are identified by their position in the request's list).
SimulateMigration(mailbox, outcome) ==
    IF outcome = "success"
    THEN [mailbox |-> mailbox, Status |-> "Completed", ErrorMessage |-> ""]
    ELSE [mailbox |-> mailbox, Status |-> "Failed", ErrorMessage |-> MoverErrorText]

CountStatus(results, status) ==
    Cardinality({k \in 1..Len(results) : results[k].Status = status})

\* calculateStats
CalculateStats(results) ==
    [Total |-> Len(results),
     Successful |-> CountStatus(results, "Completed"),
     Failed |-> CountStatus(results, "Failed"),
     InProgress |-> CountStatus(results, "In Progress"),
     Skipped |-> 0]

\* ---------------------------------------------------------------- variables
VARIABLES
    activeSessions,  \* Map sessionId -> session object (None: no entry)
    sessionLoggers,  \* Map sessionId -> logger object (None: no entry)
    sessions,        \* the MigrationSession objects, one per accepted request
    procs,           \* the processMigration call of each accepted request
    loggers,         \* the logs array of each MigrationLogger
    nextRun,         \* number of start requests accepted so far
    streams,         \* the progress streams (controller, timer, consumer)
    http,            \* the last response of a request that started nothing
    validations,     \* the validateMailbox calls made so far: input and result
    dashboard        \* the state of the MigrationDashboard component

vars == <<activeSessions, sessionLoggers, sessions, procs, loggers, nextRun, streams,
          http, validations, dashboard>>

\* the server's stores and runs, and what lives outside the migrate/progress routes
serverVars == <<activeSessions, sessionLoggers, sessions, procs, loggers, nextRun>>
otherVars == <<http, validations, dashboard>>

NoSession ==
    [id |-> "", BatchSize |-> NaN, mailboxList |-> << >>, migrationResults |-> << >>,
     stats |-> [Total |-> 0, Successful |-> 0, Failed |-> 0, Skipped |-> 0, InProgress |-> 0],
     status |-> "idle", endTime |-> FALSE]

NoProc ==
    [pc |-> "unused", batchSize |-> NaN, totalMailboxes |-> 0, processedCount |-> 0,
     i |-> Num(0), inflight |-> {}, batches |-> << >>, settled |-> {}, nulls |-> {}]

NoStream ==
    [st |-> "idle", sessionId |-> "", interval |-> FALSE, aborted |-> FALSE,
     ticks |-> 0, events |-> << >>, closeCalls |-> 0]

\* no response produced yet; a response is its status code, content type,
\* the error text of a JSON error body, and the header and rows of a report
NoResponse ==
    [endpoint |-> "none", status |-> 0, contentType |-> "", error |-> "",
     header |-> << >>, rows |-> << >>]

\* the dashboard's session state before the first validation (null)
NoDashSession == [id |-> "", validationResults |-> << >>, status |-> "none"]

\* no request sent yet; a request is its URL and the fields of its body
NoFetch ==
    [url |-> "", mailboxList |-> << >>, sessionId |-> "",
     config |-> [BatchSize |-> 10, ValidateOnly |-> FALSE, SkipValidation |-> FALSE]]

\* the dashboard before a file is chosen: its React state, the rows of the
\* last parse (results.data), the count of the last "Loaded" message, the
\* list of the validation request in flight and the last request sent
NoDashboard ==
    [mailboxData |-> << >>,
     config |-> [BatchSize |-> 10, ValidateOnly |-> FALSE, SkipValidation |-> FALSE],
     session |-> NoDashSession, isValidating |-> FALSE, isMigrating |-> FALSE,
     parsed |-> << >>, loaded |-> 0, validating |-> << >>, fetch |-> NoFetch]

\* ------------------------------------------------------- processMigration
\* The operators below work on a record m = [session, proc, logs, set]: the
\* session object, the frame of processMigration, the logger's array and
\* whether activeSessions.set(sessionId, session) was executed.

\* the catch block of the per-item callback (lines 102-121)
OnMoverThrowNoOutcome(m, mailbox) ==
    [m EXCEPT
        !.logs = Log(@, "Error", "Migration error", << >>, mailbox),
        !.session.stats.Failed = @ + 1]

OnMoverThrowNoCount(m, mailbox) ==
    [m EXCEPT
        !.logs = Log(@, "Error", "Migration error", << >>, mailbox),
        !.session.migrationResults =
            Append(@, [mailbox |-> mailbox, Status |-> "Failed",
                       ErrorMessage |-> ThrownErrorText])]

OnMoverThrow(m, mailbox) ==
    [m EXCEPT
        !.logs = Log(@, "Error", "Migration error", << >>, mailbox),
        !.session.stats.Failed = @ + 1,
        !.session.migrationResults =
            Append(@, [mailbox |-> mailbox, Status |-> "Failed",
                       ErrorMessage |-> ThrownErrorText])]

\* mutant: each callback appends to the list as it was when its batch
\* started and stores that
OnMoverResultFromSnapshot(m, mailbox, outcome) ==
    LET result == SimulateMigration(mailbox, outcome)
        current == Range(m.proc.batches[Len(m.proc.batches)])
        snapshot == SelectSeq(m.session.migrationResults,
                              LAMBDA o : o.mailbox \notin current)
        results == Append(snapshot, result)
    IN  [m EXCEPT
            !.session.migrationResults = results,
            !.proc.processedCount = @ + 1,
            !.session.stats = CalculateStats(results),
            !.set = TRUE]

\* mutant: the outcome is put at the item's place in input order
OnMoverResultInInputOrder(m, mailbox, outcome) ==
    LET result == SimulateMigration(mailbox, outcome)
        old == m.session.migrationResults
        before == Cardinality({j \in 1..Len(old) : old[j].mailbox < mailbox})
        results == SubSeq(old, 1, before) \o <<result>> \o SubSeq(old, before + 1, Len(old))
    IN  [m EXCEPT
            !.session.migrationResults = results,
            !.proc.processedCount = @ + 1,
            !.session.stats = CalculateStats(results),
            !.set = TRUE]

\* the try block of the per-item callback after the await (lines 84-101)
OnMoverResult(m, mailbox, outcome) ==
    LET result == SimulateMigration(mailbox, outcome)
        results == Append(m.session.migrationResults, result)
    IN  [m EXCEPT
            !.logs = IF result.Status = "Completed"
                     THEN Log(@, "Success", "Migration completed successfully", << >>, mailbox)
                     ELSE Log(@, "Error", "Migration failed", << >>, mailbox),
            !.session.migrationResults = results,
            !.proc.processedCount = @ + 1,
            !.session.stats = CalculateStats(results),
            !.set = TRUE]

\* one item's callback resumes when its mover call settles
\* (proc.batches and proc.settled record what was started and how each mover
\* call ended; the code keeps neither)
ItemSettled(m, mailbox, outcome) ==
    LET m1 == [m EXCEPT !.proc.inflight = @ \ {mailbox},
                        !.proc.settled = @ \cup {<<mailbox, outcome>>}]
    IN  IF outcome = "throws" THEN OnMoverThrow(m1, mailbox)
        ELSE OnMoverResult(m1, mailbox, outcome)

BatchSettledAny(proc) == TRUE

\* await Promise.all(batchPromises) resumes when no item is pending
BatchSettled(proc) == proc.inflight = {}

\* lines 135-143: the loop is over
Finish(m) ==
    [m EXCEPT
        !.session.status = "completed",
        !.session.endTime = TRUE,
        !.logs = Log(@, "Success", "Migration Complete!",
                     <<Num(m.session.stats.Total), Num(m.session.stats.Successful),
                       Num(m.session.stats.Failed)>>, None),
        !.proc.pc = "done",
        !.set = TRUE]

\* lines 126-132 and the loop's exit: after Promise.all resolved
AfterBatch(m) ==
    IF Lt(Add(m.proc.i, m.proc.batchSize), Num(m.proc.totalMailboxes))
    THEN [m EXCEPT
            !.logs = Log(Log(@, "Progress", "Batch complete",
                             <<BatchNumber(m.proc.i, m.proc.batchSize)>>, None),
                         "Info", "Pausing 5 seconds before next batch...", << >>, None),
            !.proc.pc = "pause"]
    ELSE Finish([m EXCEPT
            !.logs = Log(@, "Progress", "Batch complete",
                         <<BatchNumber(m.proc.i, m.proc.batchSize)>>, None),
            !.proc.i = Add(m.proc.i, m.proc.batchSize)])

\* line 81, once per item of the batch, in the order of batch.map
LogStarts(logs, batch) ==
    logs \o [k \in 1..Len(batch) |->
                LogEntry("Progress", "Starting migration", << >>, batch[k])]

\* lines 74-124: form the batch, start every item, await Promise.all.
\* The callback of an element that is null throws at line 81, before its
\* log entry and its mover call: its promise is rejected, Promise.all
\* rejects and with it processMigration (pc "rejected"), while the other
\* items of the batch have been started.
StartBatch(m) ==
    LET p == m.proc
        batch == Slice(m.session.mailboxList, p.i, Add(p.i, p.batchSize))
        started == SelectSeq(batch, LAMBDA mailbox : mailbox \notin p.nulls)
        m1 == [m EXCEPT
                 !.logs = LogStarts(Log(@, "Progress", "Processing Batch",
                                        <<BatchNumber(p.i, p.batchSize), Num(Len(batch))>>,
                                        None),
                                    started),
                 !.proc.inflight = @ \cup Range(started),
                 !.proc.batches = Append(@, batch),
                 !.proc.pc = IF started = batch THEN "await" ELSE "rejected"]
    IN  IF started # batch THEN m1
        ELSE IF batch = << >> THEN AfterBatch(m1) ELSE m1

\* line 73: the loop test
LoopHead(m) ==
    IF Lt(m.proc.i, Num(m.proc.totalMailboxes)) THEN StartBatch(m) ELSE Finish(m)

\* ------------------------------------------------------------------- Init
Init ==
    /\ activeSessions = [id \in SessionIds |-> None]
    /\ sessionLoggers = [id \in SessionIds |-> None]
    /\ sessions = [r \in RunIds |-> NoSession]
    /\ procs = [r \in RunIds |-> NoProc]
    /\ loggers = [r \in RunIds |-> << >>]
    /\ nextRun = 0
    /\ streams = [s \in Streams |-> NoStream]
    /\ http = NoResponse
    /\ validations = << >>
    /\ dashboard = NoDashboard

\* --------------------------------------------------------- start migration
BatchSizes == {NaN, Num(0 - 1), Num(0), Num(1), Num(2)}

Machine(r) == [session |-> sessions[r], proc |-> procs[r], logs |-> loggers[r], set |-> FALSE]

\* write a machine record back to the heap and the store
Commit(r, m) ==
    /\ sessions' = [sessions EXCEPT ![r] = m.session]
    /\ procs' = [procs EXCEPT ![r] = m.proc]
    /\ loggers' = [loggers EXCEPT ![r] = m.logs]
    /\ activeSessions' = IF m.set THEN [activeSessions EXCEPT ![m.session.id] = r]
                         ELSE activeSessions

\* POST /api/migrate with a sessionId, an array of n elements, those at the
\* positions nulls being null and the others records, and a config whose
\* BatchSize is bs; processMigration runs inside the handler up to its first
\* await.
PostList(sessionId, n, bs, nulls) ==
    /\ nextRun < MaxRuns
    /\ LET r == nextRun + 1
       IN  \E m0 \in {
                 [session |-> [id |-> sessionId, BatchSize |-> bs,
                               mailboxList |-> [k \in 1..n |-> k],
                               migrationResults |-> << >>,
                               stats |-> [Total |-> n, Successful |-> 0, Failed |-> 0,
                                          Skipped |-> 0, InProgress |-> 0],
                               status |-> "migrating", endTime |-> FALSE],
                  proc |-> [NoProc EXCEPT !.batchSize = bs, !.totalMailboxes = n,
                                          !.nulls = nulls],
                  logs |-> Log(<< >>, "Progress", "Starting migration of mailboxes",
                               <<Num(n), bs>>, None),
                  set |-> TRUE]} :
           \E m \in {LoopHead(m0)} :
           /\ sessions' = [sessions EXCEPT ![r] = m.session]
           /\ procs' = [procs EXCEPT ![r] = m.proc]
           /\ loggers' = [loggers EXCEPT ![r] = m.logs]
           /\ sessionLoggers' = [sessionLoggers EXCEPT ![sessionId] = r]
           /\ activeSessions' = [activeSessions EXCEPT ![sessionId] = r]
           /\ nextRun' = r
    /\ UNCHANGED <<streams, otherVars>>

\* POST /api/migrate with a sessionId, an array of n records and a config
\* whose BatchSize is bs
Post(sessionId, n, bs) == PostList(sessionId, n, bs, {})

\* the mover call of one pending item settles
Complete(r, mailbox, outcome) ==
    /\ procs[r].pc \in {"await", "rejected"}
    /\ mailbox \in procs[r].inflight
    /\ \E m0 \in {Machine(r)} :
       \E m1 \in {ItemSettled(m0, mailbox, outcome)} :
       \E m \in {IF m1.proc.pc = "await" /\ BatchSettled(m1.proc)
                  THEN AfterBatch(m1) ELSE m1} :
           Commit(r, m)
    /\ UNCHANGED <<sessionLoggers, nextRun, streams, otherVars>>

\* the 5 second timer between two batches fires
PauseElapsed(r) ==
    /\ procs[r].pc = "pause"
    /\ Len(procs[r].batches) < MaxBatches
    /\ \E m0 \in {Machine(r)} :
       \E m1 \in {[m0 EXCEPT !.proc.i = Add(@, m0.proc.batchSize)]} :
       \E m \in {LoopHead(m1)} :
           Commit(r, m)
    /\ UNCHANGED <<sessionLoggers, nextRun, streams, otherVars>>

\* ------------------------------------------------------------ progress route
\* sendEvent(data): enqueue one SSE message. No call passes the second
\* argument, so the message has no "event:" line and is a default
\* ("message") event whose data carries the type.
SendEvent(st, type, data) ==
    [st EXCEPT !.events = Append(@, [event |-> "message", type |-> type, data |-> data])]

\* lines 32-37: no session or no logger under the id
TickMissingKeepTimer(st) ==
    SendEvent(st, "error", [message |-> "Session not found"])

TickMissing(st) ==
    [SendEvent(st, "error", [message |-> "Session not found"])
        EXCEPT !.interval = FALSE, !.st = "closed", !.closeCalls = @ + 1]

\* lines 39-54: the latest log entry (if any) and the progress snapshot
TickProgress(st, session, logs) ==
    LET st1 == IF Len(logs) > 0
               THEN SendEvent(st, "log", [log |-> logs[Len(logs)]])
               ELSE st
    IN  SendEvent(st1, "progress",
                  [session |-> [stats |-> session.stats, status |-> session.status,
                                migrationResults |-> session.migrationResults]])

\* lines 56-67: the terminal event
TickCompleteKeepTimer(st, session, logs) ==
    SendEvent(st, "complete", [session |-> session, logs |-> logs])

TickComplete(st, session, logs) ==
    [SendEvent(st, "complete", [session |-> session, logs |-> logs])
        EXCEPT !.interval = FALSE, !.st = "closed", !.closeCalls = @ + 1]

\* the interval callback (lines 28-68)
TickBody(st, session, logger) ==
    IF session = None \/ logger = None
    THEN TickMissing(st)
    ELSE LET st1 == TickProgress(st, sessions[session], loggers[logger])
         IN  IF sessions[session].status \in {"completed", "error"}
             THEN TickComplete(st1, sessions[session], loggers[logger])
             ELSE st1

AbortHandlerKeepTimer(st) ==
    [st EXCEPT !.aborted = TRUE, !.st = "closed", !.closeCalls = @ + 1]

\* the 'abort' listener of request.signal (lines 71-74): it calls
\* controller.close() whether or not the stream is closed already
AbortHandler(st) ==
    [st EXCEPT !.interval = FALSE, !.aborted = TRUE, !.st = "closed",
               !.closeCalls = @ + 1]

\* GET /api/progress?sessionId=...: ReadableStream.start
Connect(s, sessionId) ==
    /\ streams[s].st = "idle"
    /\ streams' = [streams EXCEPT ![s] =
           [SendEvent(@, "connected", [message |-> "Progress stream connected"])
               EXCEPT !.st = "open", !.sessionId = sessionId, !.interval = TRUE]]
    /\ UNCHANGED <<serverVars, otherVars>>

\* the 1 second timer of a stream fires
Tick(s) ==
    /\ streams[s].interval
    /\ streams[s].ticks < MaxTicks
    /\ streams' = [streams EXCEPT ![s] =
           TickBody([@ EXCEPT !.ticks = @ + 1],
                    activeSessions[streams[s].sessionId],
                    sessionLoggers[streams[s].sessionId])]
    /\ UNCHANGED <<serverVars, otherVars>>

\* the consumer disconnects: request.signal fires 'abort' (once)
Abort(s) ==
    /\ streams[s].st # "idle"
    /\ ~streams[s].aborted
    /\ streams' = [streams EXCEPT ![s] = AbortHandler(@)]
    /\ UNCHANGED <<serverVars, otherVars>>

\* ------------------------------------------------------------ reports route
\* A request parameter that is absent or empty: searchParams.get gives null
\* or "", and both are falsy.
Absent == ""

JsonError(endpoint, status, error) ==
    [NoResponse EXCEPT !.endpoint = endpoint, !.status = status,
                       !.contentType = "application/json", !.error = error]

CsvColumns ==
    <<"Display Name", "Source Email", "Target Email", "Status", "Error Message">>

\* one record of csvData; stringify writes one line per record, its cells in
\* the order of the columns option
CsvRow(result) ==
    [cells |-> <<result.mailbox, result.mailbox, result.mailbox, result.Status,
                 IF result.ErrorMessage = "" THEN "" ELSE result.ErrorMessage>>,
     statusClass |-> ""]

\* the <th> cells of the results table
HtmlColumns == <<"Display Name", "Source Email", "Target Email", "Status">>

\* one <tr> of the results table: the three identity cells and the status
\* cell, which carries a CSS class
HtmlRow(result) ==
    [cells |-> <<result.mailbox, result.mailbox, result.mailbox, result.Status>>,
     statusClass |-> IF result.Status = "Completed" THEN "status-completed"
                     ELSE "status-failed"]

\* generateReportHTML: the table of the report (the stat cards are not modelled)
GenerateReportHTML(results) ==
    [header |-> HtmlColumns, rows |-> [k \in 1..Len(results) |-> HtmlRow(results[k])]]

\* mutant: the lines of the completed outcomes only
StringifyCompletedOnly(results) ==
    [header |-> CsvColumns,
     rows |-> [k \in 1..CountStatus(results, "Completed") |-> CsvRow(results[k])]]

\* csv-stringify with header: true over csvData
Stringify(results) ==
    [header |-> CsvColumns, rows |-> [k \in 1..Len(results) |-> CsvRow(results[k])]]

\* mutant: the format is checked before the session is looked up
ReportResponseFormatFirst(sessionId, formatParam) ==
    IF sessionId = Absent THEN JsonError("reports", 400, "Missing sessionId")
    ELSE IF formatParam \notin {Absent, "csv", "html"}
    THEN JsonError("reports", 400, "Invalid format. Use csv or html")
    ELSE IF activeSessions[sessionId] = None
    THEN JsonError("reports", 404, "Session not found")
    ELSE [NoResponse EXCEPT !.endpoint = "reports", !.status = 200]

\* GET /api/reports?sessionId=...&format=...: the response
ReportResponse(sessionId, formatParam) ==
    LET format == IF formatParam = Absent THEN "csv" ELSE formatParam
    IN  IF sessionId = Absent THEN JsonError("reports", 400, "Missing sessionId")
        ELSE IF activeSessions[sessionId] = None
        THEN JsonError("reports", 404, "Session not found")
        ELSE LET session == sessions[activeSessions[sessionId]]
             IN  IF format = "csv"
                 THEN [endpoint |-> "reports", status |-> 200, contentType |-> "text/csv",
                       error |-> "",
                       header |-> Stringify(session.migrationResults).header,
                       rows |-> Stringify(session.migrationResults).rows]
                 ELSE IF format = "html"
                 THEN [endpoint |-> "reports", status |-> 200, contentType |-> "text/html",
                       error |-> "",
                       header |-> GenerateReportHTML(session.migrationResults).header,
                       rows |-> GenerateReportHTML(session.migrationResults).rows]
                 ELSE JsonError("reports", 400, "Invalid format. Use csv or html")

Formats == {Absent, "csv", "html", "pdf"}

\* mutant: a report request that also closes the session it reports on
GetReportClosingSession(sessionId, formatParam) ==
    /\ http' = ReportResponse(sessionId, formatParam)
    /\ sessionId # Absent
    /\ activeSessions[sessionId] # None
    /\ sessions' = [sessions EXCEPT ![activeSessions[sessionId]].status = "completed"]
    /\ procs' = [procs EXCEPT ![activeSessions[sessionId]].pc = "done"]
    /\ UNCHANGED <<activeSessions, sessionLoggers, loggers, nextRun, streams,
                   validations, dashboard>>

\* a report request is served
GetReport(sessionId, formatParam) ==
    /\ http' = ReportResponse(sessionId, formatParam)
    /\ UNCHANGED <<serverVars, streams, validations, dashboard>>

\* ---------------------------------------------------------- validateMailbox
\* Strings that the code inspects are sequences of these characters: a name
\* character, the at sign, the dot and a white space.
Chars == {"a", "@", ".", " "}

Strings(maxLen) == UNION {[1..len -> Chars] : len \in 0..maxLen}

\* /^[^\s@]+@[^\s@]+\.[^\s@]+$/.test(text): a non-empty part, an at sign, a
\* non-empty part, a dot and a non-empty part, the parts free of white space
\* and at signs (they may hold dots)
EmailRegexTest(text) ==
    \E at \in 1..Len(text), dot \in 1..Len(text) :
        /\ text[at] = "@"
        /\ text[dot] = "."
        /\ 1 < at
        /\ at + 1 < dot
        /\ dot < Len(text)
        /\ \A k \in 1..Len(text) : k # at => text[k] \notin {" ", "@"}

\* a source mailbox larger than this many MB gets a warning
LargeMailboxMB == 10000

Sizes == {0, LargeMailboxMB, LargeMailboxMB + 1}

\* What connector.validateMailbox can resolve with: the mailbox with its
\* size and database (either may be missing from the reply), no mailbox, or
\* the error of a failed lookup, which the connector reports as no mailbox.
Lookups ==
    {[exists |-> TRUE, hasSize |-> TRUE, size |-> size, hasDatabase |-> db, error |-> ""] :
         size \in Sizes, db \in BOOLEAN}
    \cup {[exists |-> TRUE, hasSize |-> FALSE, size |-> 0, hasDatabase |-> db, error |-> ""] :
              db \in BOOLEAN}
    \cup {[exists |-> FALSE, hasSize |-> FALSE, size |-> 0, hasDatabase |-> FALSE,
           error |-> error] : error \in {"Mailbox not found", "lookup error"}}

\* mutant: the warning starts at the threshold itself
IsLargeFromThreshold(size) == size >= LargeMailboxMB

IsLarge(size) == size > LargeMailboxMB

\* mutant: a reply without a database name fails the validation
ValidateMailboxNeedsDatabase(mailbox, lookup) ==
    [SourceEmail |-> mailbox.SourceEmail, TargetEmail |-> mailbox.TargetEmail,
     DisplayName |-> mailbox.DisplayName, SourceExists |-> lookup.exists,
     SourceSize |-> IF lookup.hasSize THEN lookup.size ELSE 0,
     ValidationStatus |-> IF lookup.exists /\ lookup.hasDatabase THEN "Passed" ELSE "Failed",
     ValidationMessages |-> << >>,
     ValidationIssues |-> IF lookup.exists /\ lookup.hasDatabase THEN << >>
                          ELSE <<"Source mailbox not found">>]

\* validateMailbox: the ValidationResult of a record, given the reply of the
\* source lookup (messages are named by their kind)
ValidateMailbox(mailbox, lookup) ==
    LET targetEmailValid == EmailRegexTest(mailbox.TargetEmail)
        validation ==
            [SourceEmail |-> mailbox.SourceEmail, TargetEmail |-> mailbox.TargetEmail,
             DisplayName |-> mailbox.DisplayName, SourceExists |-> lookup.exists,
             SourceSize |-> IF lookup.hasSize THEN lookup.size ELSE 0,
             ValidationStatus |-> "Passed", ValidationMessages |-> << >>,
             ValidationIssues |-> << >>]
        exists == Append(validation.ValidationMessages, "Source mailbox exists")
        messages == IF lookup.hasDatabase THEN Append(exists, "Database") ELSE exists
    IN  IF ~lookup.exists
        THEN [validation EXCEPT !.ValidationStatus = "Failed",
                 !.ValidationIssues = Append(@, "Source mailbox not found"),
                 !.ValidationMessages = Append(@, "Source mailbox does not exist")]
        ELSE IF ~targetEmailValid
        THEN [validation EXCEPT !.ValidationStatus = "Failed",
                 !.ValidationIssues = Append(@, "Invalid target email format"),
                 !.ValidationMessages = Append(@, "Target email is not valid")]
        ELSE IF IsLarge(validation.SourceSize)
        THEN [validation EXCEPT !.ValidationStatus = "Warning",
                 !.ValidationIssues =
                     Append(@, "Large mailbox (>10GB) - migration may take extended time"),
                 !.ValidationMessages = Append(messages, "Large mailbox detected")]
        ELSE [validation EXCEPT !.ValidationMessages = messages]

\* a record as the CSV parser delivers it
Row(source, target, name) ==
    [SourceEmail |-> source, TargetEmail |-> target, DisplayName |-> name]

\* validateMailbox is called on a record and the lookup replies
ValidateCall(mailbox, lookup) ==
    /\ Len(validations) < MaxValidations
    /\ validations' = Append(validations,
           [mailbox |-> mailbox, lookup |-> lookup, result |-> ValidateMailbox(mailbox, lookup)])
    /\ UNCHANGED <<serverVars, streams, http, dashboard>>

\* records whose target address is any string of up to MaxAddressLen characters
AddressRecords ==
    {Row(<<"a", "@", "a", ".", "a">>, target, <<"a">>) : target \in Strings(MaxAddressLen)}

\* the record of a call: any record first, the same record again afterwards
RecordsToValidate ==
    IF validations = << >> THEN AddressRecords ELSE {validations[1].mailbox}

NextValidate ==
    \E mailbox \in RecordsToValidate, lookup \in Lookups : ValidateCall(mailbox, lookup)

ValidateSpec == Init /\ [][NextValidate]_vars

\* ------------------------------------------------------- request validation
\* What the mailboxList of a start request's body can be: missing, a value
\* that is not an array, or an array.
ListInputs == {"missing", "object", "array"}

\* POST /api/migrate with any body: the parameter check, then the start of
\* the migration (n is the length of the list when it is an array)
MigrateRequest(sessionId, mailboxList, n, bs) ==
    IF sessionId = Absent \/ mailboxList = "missing" \/ mailboxList # "array"
    THEN /\ http' = JsonError("migrate", 400, "Invalid request parameters")
         /\ UNCHANGED <<serverVars, streams, validations, dashboard>>
    ELSE Post(sessionId, n, bs)

\* GET /api/progress with or without a sessionId: the parameter check, then
\* the stream
ProgressRequest(s, sessionId) ==
    IF sessionId = Absent
    THEN /\ http' = [NoResponse EXCEPT !.endpoint = "progress", !.status = 400,
                                       !.contentType = "text/plain",
                                       !.error = "Missing sessionId"]
         /\ UNCHANGED <<serverVars, streams, validations, dashboard>>
    ELSE Connect(s, sessionId)

\* ---------------------------------------------------------------- dashboard
Address == <<"a", "@", "a", ".", "a">>

\* the rows a parsed file can hold: a complete one, one whose target is not
\* an address, and rows with an empty or missing field
FileRows ==
    {Row(Address, Address, <<"a">>), Row(Address, <<"a">>, <<"a">>),
     Row(Address, Address, << >>), Row(<< >>, Address, <<"a">>)}

Files == UNION {[1..len -> FileRows] : len \in 0..MaxFileRows}

\* mutant: a row without display name is kept
IsCompleteRowWithoutName(row) == row.SourceEmail # << >> /\ row.TargetEmail # << >>

\* row.SourceEmail && row.TargetEmail && row.DisplayName
IsCompleteRow(row) ==
    row.SourceEmail # << >> /\ row.TargetEmail # << >> /\ row.DisplayName # << >>

\* handleFileUpload and the complete callback of Papa.parse
HandleFileUpload(file) ==
    /\ dashboard' = [dashboard EXCEPT !.parsed = file,
                                      !.mailboxData = SelectSeq(file, IsCompleteRow),
                                      !.loaded = Len(SelectSeq(file, IsCompleteRow))]
    /\ UNCHANGED <<serverVars, streams, http, validations>>

\* the two checkboxes of the configuration card, shown once a list is loaded
ToggleValidateOnly ==
    /\ dashboard.mailboxData # << >>
    /\ dashboard' = [dashboard EXCEPT !.config.ValidateOnly = ~@]
    /\ UNCHANGED <<serverVars, streams, http, validations>>

ToggleSkipValidation ==
    /\ dashboard.mailboxData # << >>
    /\ dashboard' = [dashboard EXCEPT !.config.SkipValidation = ~@]
    /\ UNCHANGED <<serverVars, streams, http, validations>>

\* the Validate Mailboxes button is shown and enabled
CanStartValidation ==
    /\ dashboard.mailboxData # << >>
    /\ ~(dashboard.isValidating \/ dashboard.isMigrating)

\* startValidation up to its fetch
StartValidation ==
    /\ CanStartValidation
    /\ dashboard' = [dashboard EXCEPT
           !.isValidating = TRUE,
           !.validating = dashboard.mailboxData,
           !.fetch = [url |-> "/api/validate", mailboxList |-> dashboard.mailboxData,
                      sessionId |-> "", config |-> dashboard.config]]
    /\ UNCHANGED <<serverVars, streams, http, validations>>

\* the lookup replies met by a validation request
DashLookups ==
    {lookup \in Lookups :
        /\ lookup.exists => (lookup.hasSize /\ lookup.hasDatabase /\ lookup.size # LargeMailboxMB)
        /\ lookup.error # "lookup error"}

\* POST /api/validate: the results, one per record, in the order of the list
ValidateRoute(mailboxList, replies) ==
    [k \in 1..Len(mailboxList) |-> ValidateMailbox(mailboxList[k], replies[k])]

\* startValidation after its fetch: the results arrive and the session is
\* created (its id is the clock reading)
ValidationResponse(replies, id) ==
    /\ dashboard.isValidating
    /\ dashboard' = [dashboard EXCEPT
           !.session = [id |-> id,
                        validationResults |-> ValidateRoute(dashboard.validating, replies),
                        status |-> "ready"],
           !.isValidating = FALSE,
           !.validating = << >>]
    /\ UNCHANGED <<serverVars, streams, http, validations>>

\* startValidation after its fetch: the request failed
ValidationFailed ==
    /\ dashboard.isValidating
    /\ dashboard' = [dashboard EXCEPT !.isValidating = FALSE, !.validating = << >>]
    /\ UNCHANGED <<serverVars, streams, http, validations>>

\* the Start Migration button is shown and enabled
CanStartMigration ==
    /\ dashboard.mailboxData # << >>
    /\ dashboard.session.status # "none"
    /\ Len(dashboard.session.validationResults) > 0
    /\ ~dashboard.isMigrating
    /\ \A k \in 1..Len(dashboard.session.validationResults) :
           dashboard.session.validationResults[k].ValidationStatus # "Failed"

\* startMigration up to its fetch
StartMigration ==
    /\ CanStartMigration
    /\ dashboard.session.status # "none"
    /\ dashboard' = [dashboard EXCEPT
           !.isMigrating = TRUE,
           !.fetch = [url |-> "/api/migrate", mailboxList |-> dashboard.mailboxData,
                      sessionId |-> dashboard.session.id, config |-> dashboard.config]]
    /\ UNCHANGED <<serverVars, streams, http, validations>>

\* the event source closes or the start request fails: setIsMigrating(false)
MigrationEnded ==
    /\ dashboard.isMigrating
    /\ dashboard' = [dashboard EXCEPT !.isMigrating = FALSE]
    /\ UNCHANGED <<serverVars, streams, http, validations>>

\* Date.now().toString() when the validation results arrive; the dashboard
\* never compares two ids, so one reading stands for all
ClockReadings == {"s1"}

NextDashboard ==
    \/ \E file \in Files : HandleFileUpload(file)
    \/ ToggleValidateOnly
    \/ ToggleSkipValidation
    \/ StartValidation
    \/ \E replies \in [1..Len(dashboard.validating) -> DashLookups], id \in ClockReadings :
           ValidationResponse(replies, id)
    \/ ValidationFailed
    \/ StartMigration
    \/ MigrationEnded

DashboardSpec == Init /\ [][NextDashboard]_vars

Next ==
    \/ \E sessionId \in SessionIds, n \in 0..MaxN, bs \in BatchSizes : Post(sessionId, n, bs)
    \/ \E r \in RunIds, mailbox \in 1..MaxItems, outcome \in MoverOutcomes :
           Complete(r, mailbox, outcome)
    \/ \E r \in RunIds : PauseElapsed(r)
    \/ \E s \in Streams, sessionId \in SessionIds : Connect(s, sessionId)
    \/ \E s \in Streams : Tick(s)
    \/ \E s \in Streams : Abort(s)

Spec == Init /\ [][Next]_vars

\* The orchestrator alone (no progress consumer), with longer lists.
NextMigration ==
    \/ \E sessionId \in SessionIds, n \in 0..MaxItems, bs \in BatchSizes :
           Post(sessionId, n, bs)
    \/ \E r \in RunIds, mailbox \in 1..MaxItems, outcome \in MoverOutcomes :
           Complete(r, mailbox, outcome)
    \/ \E r \in RunIds : PauseElapsed(r)

MigrationSpec == Init /\ [][NextMigration]_vars

\* One migration at a time, in which every timer fires and every mover call
\* settles.
NextFairMigration ==
    \/ /\ nextRun < MaxFairRuns
       /\ \E sessionId \in SessionIds, n \in 0..MaxItems, bs \in BatchSizes :
              Post(sessionId, n, bs)
    \/ \E r \in RunIds, mailbox \in 1..MaxItems, outcome \in MoverOutcomes :
           Complete(r, mailbox, outcome)
    \/ \E r \in RunIds : PauseElapsed(r)

FairMigrationSpec ==
    /\ Init
    /\ [][NextFairMigration]_vars
    /\ \A r \in RunIds :
          /\ WF_vars(PauseElapsed(r))
          /\ WF_vars(\E mailbox \in 1..MaxItems, outcome \in MoverOutcomes :
                        Complete(r, mailbox, outcome))

\* One migration of a list that may hold null elements, in which every timer
\* fires and every mover call settles.
NextNullItems ==
    \/ /\ nextRun < MaxFairRuns
       /\ \E sessionId \in SessionIds, n \in 0..MaxItems, bs \in BatchSizes,
             nulls \in SUBSET (1..MaxItems) :
              /\ nulls \subseteq 1..n
              /\ PostList(sessionId, n, bs, nulls)
    \/ \E r \in RunIds, mailbox \in 1..MaxItems, outcome \in MoverOutcomes :
           Complete(r, mailbox, outcome)
    \/ \E r \in RunIds : PauseElapsed(r)

NullItemsSpec ==
    /\ Init
    /\ [][NextNullItems]_vars
    /\ \A r \in RunIds :
          /\ WF_vars(PauseElapsed(r))
          /\ WF_vars(\E mailbox \in 1..MaxItems, outcome \in MoverOutcomes :
                        Complete(r, mailbox, outcome))

\* One migration with any number of progress connections and report
\* requests around it; only the orchestrator's timers and mover calls are
\* certain to happen.
NextReaders ==
    \/ /\ nextRun < MaxFairRuns
       /\ \E sessionId \in SessionIds \cup {Absent}, mailboxList \in ListInputs,
             n \in 0..MaxN, bs \in BatchSizes :
              MigrateRequest(sessionId, mailboxList, n, bs)
    \/ \E r \in RunIds, mailbox \in 1..MaxItems, outcome \in MoverOutcomes :
           Complete(r, mailbox, outcome)
    \/ \E r \in RunIds : PauseElapsed(r)
    \/ \E s \in Streams, sessionId \in SessionIds \cup {Absent} :
           ProgressRequest(s, sessionId)
    \/ \E s \in Streams : Tick(s)
    \/ \E s \in Streams : Abort(s)
    \/ \E sessionId \in SessionIds \cup {Absent}, formatParam \in Formats :
           GetReport(sessionId, formatParam)

ReadersSpec ==
    /\ Init
    /\ [][NextReaders]_vars
    /\ \A r \in RunIds :
          /\ WF_vars(PauseElapsed(r))
          /\ WF_vars(\E mailbox \in 1..MaxItems, outcome \in MoverOutcomes :
                        Complete(r, mailbox, outcome))

\* ------------------------------------------------------------------ claims
Started(r) == procs[r].pc # "unused"

Outcomes(r) == sessions[r].migrationResults

OutcomesOf(r, mailbox) == {k \in 1..Len(Outcomes(r)) : Outcomes(r)[k].mailbox = mailbox}

Threw(r) == \E x \in procs[r].settled : x[2] = "throws"

StatsSum(stats) == stats.Successful + stats.Failed + stats.InProgress

EventTypes(s) == [k \in 1..Len(streams[s].events) |-> streams[s].events[k].type]

\* C1: in every reachable state, for every session object, Successful +
\* Failed + InProgress of its stats equals the length of migrationResults,
\* and every progress snapshot a stream has emitted satisfies the same
\* equation, whatever the interleaving of completions and mover exceptions.
StatsSumMatchesOutcomes ==
    /\ \A r \in RunIds : StatsSum(sessions[r].stats) = Len(Outcomes(r))
    /\ \A s \in Streams : \A k \in 1..Len(streams[s].events) :
          LET e == streams[s].events[k]
          IN  e.type = "progress" =>
                StatsSum(e.data.session.stats) = Len(e.data.session.migrationResults)

\* the latest event of a stream is the progress snapshot of a run in which
\* one mover call has thrown while a sibling of the same batch is pending
StatsSumWitness ==
    \E s \in Streams, r \in RunIds :
        LET ev == streams[s].events
        IN  /\ streams[s].st # "idle"
            /\ activeSessions[streams[s].sessionId] = r
            /\ Threw(r)
            /\ procs[r].inflight # {}
            /\ ev[Len(ev)].type = "progress"
            /\ ev[Len(ev)].data.session.migrationResults = Outcomes(r)

\* C2 (as claimed): a completed session whose mover calls all returned holds
\* one outcome per record of the request, stats.Total = N, Successful +
\* Failed = N and InProgress = 0.
CompletedRunHasAllOutcomes ==
    \A r \in RunIds :
        (sessions[r].status = "completed" /\ ~Threw(r)) =>
            /\ Len(Outcomes(r)) = Len(sessions[r].mailboxList)
            /\ sessions[r].stats.Total = Len(sessions[r].mailboxList)
            /\ sessions[r].stats.Successful + sessions[r].stats.Failed
                  = Len(sessions[r].mailboxList)
            /\ sessions[r].stats.InProgress = 0

\* C3: no item of a later batch is started while an item of an earlier
\* batch of the same run is pending or has no outcome yet: every item of
\* every batch but the latest has settled and has its outcome in the session.
BatchesStrictlySequential ==
    \A r \in RunIds :
        \A k \in 1..(Len(procs[r].batches) - 1) :
            \A mailbox \in Range(procs[r].batches[k]) :
                /\ mailbox \notin procs[r].inflight
                /\ OutcomesOf(r, mailbox) # {}

\* a second batch is running after a first batch of two items
BatchesSequentialWitness ==
    \E r \in RunIds :
        /\ Len(procs[r].batches) = 2
        /\ Len(procs[r].batches[1]) = 2
        /\ procs[r].inflight # {}

CeilDiv(n, b) == (n + b - 1) \div b

\* the records at positions (k-1)*B+1 .. min(k*B, N)
ExpectedBatch(k, b, n) == [j \in 1..(Min(k * b, n) - (k - 1) * b) |-> (k - 1) * b + j]

PositiveBatchSize(r) == ~procs[r].batchSize.nan /\ procs[r].batchSize.v >= 1

\* C4: a run over N records with a batch size B >= 1 forms the batches
\* <<(k-1)*B+1 .. min(k*B, N)>> for k = 1, 2, ... in this order, never more
\* than ceil(N/B) of them, and exactly ceil(N/B) when the loop has ended.
BatchesPartitionInput ==
    \A r \in RunIds :
        (Started(r) /\ PositiveBatchSize(r)) =>
            LET b == procs[r].batchSize.v
                n == Len(sessions[r].mailboxList)
            IN  /\ Len(procs[r].batches) <= CeilDiv(n, b)
                /\ \A k \in 1..Len(procs[r].batches) :
                      procs[r].batches[k] = ExpectedBatch(k, b, n)
                /\ procs[r].pc = "done" => Len(procs[r].batches) = CeilDiv(n, b)

\* a finished run of 3 records in batches of 2: <<1, 2>> then <<3>>
BatchesPartitionWitness ==
    \E r \in RunIds :
        /\ procs[r].pc = "done"
        /\ procs[r].batchSize = Num(2)
        /\ procs[r].batches = << <<1, 2>>, <<3>> >>

\* C5 (as claimed): the batch size the loop of a run uses is within 1..50.
BatchSizeWithinRange ==
    \A r \in RunIds :
        Started(r) => (~procs[r].batchSize.nan /\ procs[r].batchSize.v \in 1..50)
\* what the claim says an item's outcome is, given how its mover call ended
ExpectedOutcome(mailbox, outcome) ==
    IF outcome = "throws"
    THEN [mailbox |-> mailbox, Status |-> "Failed", ErrorMessage |-> ThrownErrorText]
    ELSE SimulateMigration(mailbox, outcome)

\* every settled mover call left exactly one outcome, the one of its own
\* item, and a pending call left none
OneOutcomePerSettledItem(r) ==
    /\ \A x \in procs[r].settled :
          /\ Cardinality(OutcomesOf(r, x[1])) = 1
          /\ \A k \in OutcomesOf(r, x[1]) : Outcomes(r)[k] = ExpectedOutcome(x[1], x[2])
    /\ Len(Outcomes(r)) = Cardinality(procs[r].settled)

\* the run has not stopped short: it is over, or waits for mover calls or
\* for the pause timer
StillRunning(r) ==
    \/ procs[r].pc = "done" /\ sessions[r].status = "completed"
    \/ procs[r].pc = "await" /\ procs[r].inflight # {}
    \/ procs[r].pc = "pause"

\* C6: a mover call that throws leaves exactly one Failed outcome with the
\* exception's message for its own item; every sibling gets its own outcome
\* whatever order the calls settle in; the run is not stopped by it; and
\* every run with a positive batch size in which a mover call threw goes
\* through its remaining batches and reaches status completed with one
\* outcome per record.
MoverExceptionIsIsolated ==
    /\ [](\A r \in RunIds : Started(r) => (OneOutcomePerSettledItem(r) /\ StillRunning(r)))
    /\ \A r \in RunIds :
          (Threw(r) /\ PositiveBatchSize(r))
              ~> (/\ sessions[r].status = "completed"
                  /\ \A mailbox \in Range(sessions[r].mailboxList) :
                        Cardinality(OutcomesOf(r, mailbox)) = 1)

\* the first of three items threw; its sibling got an outcome afterwards,
\* the second batch ran and the session completed
MoverExceptionWitness ==
    \E r \in RunIds :
        /\ sessions[r].status = "completed"
        /\ Len(procs[r].batches) = 2
        /\ Len(Outcomes(r)) = 3
        /\ Outcomes(r)[1].ErrorMessage = ThrownErrorText
        /\ Outcomes(r)[2].Status = "Completed"

HasEvent(s, type) == \E k \in 1..Len(streams[s].events) : streams[s].events[k].type = type

\* C7: on a stream that found its session, the first event is connected and
\* no other is; every later event is log, progress or complete; complete
\* occurs only as the last event, and then the stream is closed and its
\* timer cleared; a stream that closed without the consumer going away
\* closed on a complete event.
StreamEventOrder ==
    \A s \in Streams :
        LET ev == streams[s].events
        IN  (streams[s].st # "idle" /\ ~HasEvent(s, "error")) =>
              /\ Len(ev) >= 1 /\ ev[1].type = "connected"
              /\ \A k \in 2..Len(ev) : ev[k].type \in {"log", "progress", "complete"}
              /\ \A k \in 1..Len(ev) : ev[k].type = "complete" => k = Len(ev)
              /\ ev[Len(ev)].type = "complete" =>
                    (streams[s].st = "closed" /\ ~streams[s].interval)
              /\ (streams[s].st = "closed" /\ ~streams[s].aborted) =>
                    ev[Len(ev)].type = "complete"

\* a stream that ticked while the session was migrating and again after it
\* completed
StreamEventOrderWitness ==
    \E s \in Streams :
        /\ EventTypes(s) = <<"connected", "log", "progress", "log", "progress", "complete">>
        /\ streams[s].events[3].data.session.status = "migrating"

\* C8: a tick that finds no session under the stream's id leaves the
\* stream with exactly the events connected, error, closed and without
\* timer; and a stream that has emitted error never emits again.
UnknownSessionYieldsSingleError ==
    [][\A s \in Streams :
         /\ (streams'[s].ticks > streams[s].ticks
               /\ activeSessions[streams[s].sessionId] = None) =>
              /\ [k \in 1..Len(streams'[s].events) |-> streams'[s].events[k].type]
                    = <<"connected", "error">>
              /\ streams'[s].st = "closed"
              /\ ~streams'[s].interval
         /\ HasEvent(s, "error") =>
              /\ streams'[s].events = streams[s].events
              /\ streams'[s].ticks = streams[s].ticks]_vars

\* the stream got its error on the first tick, could tick again, and a
\* session has since been stored under its id
UnknownSessionWitness ==
    \E s \in Streams :
        /\ EventTypes(s) = <<"connected", "error">>
        /\ streams[s].ticks = 1
        /\ activeSessions[streams[s].sessionId] # None

\* C9 (as claimed): once the session stored under an id is completed, the
\* outcome list, stats and status stored under that id never change.
CompletedSessionNeverChanges ==
    [][\A id \in SessionIds :
         (activeSessions[id] # None /\ sessions[activeSessions[id]].status = "completed") =>
            /\ activeSessions'[id] # None
            /\ sessions'[activeSessions'[id]].migrationResults
                  = sessions[activeSessions[id]].migrationResults
            /\ sessions'[activeSessions'[id]].stats = sessions[activeSessions[id]].stats
            /\ sessions'[activeSessions'[id]].status = "completed"]_vars

\* C10: the abort handler clears the timer, and from the disconnect on the
\* stream reads the store no more (no tick) and emits nothing.
NoActivityAfterDisconnect ==
    [][\A s \in Streams :
         /\ streams'[s].aborted => ~streams'[s].interval
         /\ streams[s].aborted =>
              /\ streams'[s].ticks = streams[s].ticks
              /\ streams'[s].events = streams[s].events]_vars

\* the consumer left before the first tick, with ticks to spare, and the
\* session under the stream's id went on and completed with outcomes
DisconnectWitness ==
    \E s \in Streams :
        /\ streams[s].aborted
        /\ EventTypes(s) = <<"connected">>
        /\ streams[s].ticks = 0
        /\ activeSessions[streams[s].sessionId] # None
        /\ sessions[activeSessions[streams[s].sessionId]].status = "completed"
        /\ Len(sessions[activeSessions[streams[s].sessionId]].migrationResults) > 0

\* C11: progress consumers and report requests only read. A step of a
\* progress stream (connect, timer tick, disconnect) or a report request
\* leaves the store, every session (outcomes, stats, status), every logger
\* and every processMigration call as they were; and whatever the consumers
\* do, or if none ever connects, a started migration (positive BatchSize)
\* reaches "completed".
ReadersLeaveMigrationAlone ==
    /\ [][(streams' # streams \/ http' # http) => UNCHANGED serverVars]_vars
    /\ \A r \in RunIds :
          (Started(r) /\ PositiveBatchSize(r)) ~> (sessions[r].status = "completed")

\* a consumer ticked twice on a running two-item migration and left, a
\* report was served, and the migration completed all the same
ReadersWitness ==
    \E s \in Streams, r \in RunIds :
        /\ streams[s].aborted
        /\ streams[s].ticks = MaxTicks
        /\ ~HasEvent(s, "complete")
        /\ streams[s].sessionId = sessions[r].id
        /\ http.endpoint = "reports"
        /\ http.status = 200
        /\ Len(http.rows) = 1
        /\ sessions[r].status = "completed"
        /\ Len(sessions[r].migrationResults) = 2

\* C12: validateMailbox gives Failed exactly when the source lookup reports
\* no mailbox (a lookup error is reported as no mailbox) or the target does
\* not match the address pattern; a Failed result carries exactly one issue,
\* the missing source before the malformed target, and never the size
\* warning. Any other result is Warning exactly when the source size is
\* strictly above 10000 MB, with the size issue alone, and Passed with no
\* issue otherwise.
ValidationStatusRule ==
    \A k \in 1..Len(validations) :
        LET call == validations[k]
            sourceAbsent == ~call.lookup.exists
            targetMalformed == ~EmailRegexTest(call.mailbox.TargetEmail)
            size == IF call.lookup.hasSize THEN call.lookup.size ELSE 0
        IN  /\ call.result.ValidationStatus = "Failed" <=> (sourceAbsent \/ targetMalformed)
            /\ sourceAbsent =>
                   call.result.ValidationIssues = <<"Source mailbox not found">>
            /\ (~sourceAbsent /\ targetMalformed) =>
                   call.result.ValidationIssues = <<"Invalid target email format">>
            /\ (~sourceAbsent /\ ~targetMalformed) =>
                   IF size > LargeMailboxMB
                   THEN /\ call.result.ValidationStatus = "Warning"
                        /\ Len(call.result.ValidationIssues) = 1
                   ELSE /\ call.result.ValidationStatus = "Passed"
                        /\ call.result.ValidationIssues = << >>

\* a record with a well-formed target validated twice: the lookup failed
\* with an error (Failed, one issue), then found a mailbox of exactly
\* 10000 MB (Passed)
ValidationStatusWitness ==
    /\ Len(validations) = 2
    /\ EmailRegexTest(validations[1].mailbox.TargetEmail)
    /\ validations[1].lookup.error = "lookup error"
    /\ validations[1].result.ValidationStatus = "Failed"
    /\ validations[2].lookup.exists
    /\ validations[2].lookup.size = LargeMailboxMB
    /\ validations[2].result.ValidationStatus = "Passed"

\* C13 (as claimed): two validations of the same record whose lookups agree
\* on the existence of the source give the same status and the same issue
\* list, whatever else the lookups return.
ValidationDependsOnExistenceOnly ==
    \A j \in 1..Len(validations), k \in 1..Len(validations) :
        (/\ validations[j].mailbox = validations[k].mailbox
         /\ validations[j].lookup.exists = validations[k].lookup.exists)
        => /\ validations[j].result.ValidationStatus = validations[k].result.ValidationStatus
           /\ validations[j].result.ValidationIssues = validations[k].result.ValidationIssues

\* the source size as validateMailbox reads it (size || 0)
SizeRead(lookup) == IF lookup.hasSize THEN lookup.size ELSE 0

\* C13 (amended): two validations of the same record whose lookups agree on
\* the existence of the source and on its size (a missing size reads as 0)
\* give the same status and the same issue list, whatever else the lookups
\* return.
ValidationDeterministic ==
    \A j \in 1..Len(validations), k \in 1..Len(validations) :
        (/\ validations[j].mailbox = validations[k].mailbox
         /\ validations[j].lookup.exists = validations[k].lookup.exists
         /\ SizeRead(validations[j].lookup) = SizeRead(validations[k].lookup))
        => /\ validations[j].result.ValidationStatus = validations[k].result.ValidationStatus
           /\ validations[j].result.ValidationIssues = validations[k].result.ValidationIssues

\* one record validated twice with a large source: the replies differ in
\* the database field only, the results in their messages only
ValidationDeterministicWitness ==
    /\ Len(validations) = 2
    /\ validations[1].lookup.exists /\ validations[2].lookup.exists
    /\ validations[1].lookup.size = LargeMailboxMB + 1
    /\ validations[2].lookup.size = LargeMailboxMB + 1
    /\ validations[1].lookup.hasDatabase # validations[2].lookup.hasDatabase
    /\ validations[1].result.ValidationStatus = "Warning"
    /\ validations[2].result.ValidationStatus = "Warning"
    /\ validations[1].result.ValidationMessages # validations[2].result.ValidationMessages

InputErrorsRejected ==
    [][/\ \A sessionId \in SessionIds \cup {Absent}, mailboxList \in ListInputs,
            n \in 0..MaxN, bs \in BatchSizes :
              (/\ sessionId = Absent \/ mailboxList # "array"
               /\ MigrateRequest(sessionId, mailboxList, n, bs))
              => /\ http'.endpoint = "migrate" /\ http'.status = 400
                 /\ UNCHANGED <<serverVars, streams>>
       /\ \A s \in Streams :
              ProgressRequest(s, Absent)
              => /\ http'.endpoint = "progress" /\ http'.status = 400
                 /\ UNCHANGED <<serverVars, streams>>
       /\ \A sessionId \in SessionIds \cup {Absent}, formatParam \in Formats :
              GetReport(sessionId, formatParam)
              => /\ http'.endpoint = "reports"
                 /\ http'.status =
                        IF sessionId = Absent THEN 400
                        ELSE IF activeSessions[sessionId] = None THEN 404
                        ELSE IF formatParam \notin {Absent, "csv", "html"} THEN 400
                        ELSE 200
                 /\ http'.status # 200 => (http'.rows = << >> /\ http'.header = << >>)
                 /\ UNCHANGED <<serverVars, streams>>]_vars

\* a report request for a session that is not stored, while another
\* session is: the answer is 404 and carries no report
InputErrorsWitness ==
    /\ http.endpoint = "reports"
    /\ http.status = 404
    /\ \E sessionId \in SessionIds : activeSessions[sessionId] # None
    /\ \E sessionId \in SessionIds : activeSessions[sessionId] = None

\* the rows of a parsed file whose three fields are all non-empty, in the
\* order of the file
CompleteRows(rows) ==
    SelectSeq(rows, LAMBDA row : /\ Len(row.SourceEmail) > 0
                                 /\ Len(row.TargetEmail) > 0
                                 /\ Len(row.DisplayName) > 0)

\* C16: ingestion keeps exactly the rows of the uploaded file whose
\* SourceEmail, TargetEmail and DisplayName are non-empty, in upload order;
\* the count it reports is the length of that list, and every validate or
\* start request sent afterwards carries that list.
IngestionKeepsCompleteRows ==
    /\ [](/\ dashboard.mailboxData = CompleteRows(dashboard.parsed)
          /\ dashboard.loaded = Len(CompleteRows(dashboard.parsed)))
    /\ [][(StartValidation \/ StartMigration)
            => dashboard'.fetch.mailboxList = CompleteRows(dashboard.parsed)]_vars

\* a file of an incomplete row followed by a complete one was loaded, and
\* the one-row list went to the validate and then to the migrate endpoint
IngestionWitness ==
    /\ Len(dashboard.parsed) = 2
    /\ dashboard.parsed[1].DisplayName = << >>
    /\ dashboard.mailboxData = <<dashboard.parsed[2]>>
    /\ dashboard.loaded = 1
    /\ dashboard.session.status = "ready"
    /\ dashboard.fetch.url = "/api/migrate"
    /\ dashboard.fetch.mailboxList = <<dashboard.parsed[2]>>

\* C17: with ValidateOnly checked, validation runs and no migration is
\* started: the dashboard sends no start request while config.ValidateOnly
\* is true.
ValidateOnlyStartsNoMigration ==
    [][StartMigration => ~dashboard.config.ValidateOnly]_vars

\* the validation result that the dashboard's session holds for a record
ResultsFor(row) ==
    {k \in 1..Len(dashboard.session.validationResults) :
        /\ dashboard.session.validationResults[k].SourceEmail = row.SourceEmail
        /\ dashboard.session.validationResults[k].TargetEmail = row.TargetEmail
        /\ dashboard.session.validationResults[k].DisplayName = row.DisplayName}

\* C18: Start Migration is disabled while validation failures exist: every
\* record of the list sent with a start request has a validation result in
\* the dashboard's current session, and no result for it is Failed.
StartSendsOnlyValidatedRecords ==
    [][StartMigration
        => \A k \in 1..Len(dashboard'.fetch.mailboxList) :
              /\ ResultsFor(dashboard'.fetch.mailboxList[k]) # {}
              /\ \A j \in ResultsFor(dashboard'.fetch.mailboxList[k]) :
                     dashboard.session.validationResults[j].ValidationStatus # "Failed"]_vars

\* C19: with SkipValidation checked, the pre-migration checks are bypassed:
\* whenever a list is loaded, SkipValidation is checked and no validation
\* has been run or requested, the dashboard can send a start request.
SkipValidationAllowsStart ==
    (/\ dashboard.mailboxData # << >>
     /\ dashboard.config.SkipValidation
     /\ dashboard.session.status = "none"
     /\ ~dashboard.isValidating)
    => ENABLED StartMigration

\* C20: an item's outcome is in the session from the moment the item begins
\* processing, with status "In Progress", so that stats.InProgress counts
\* the items in flight; an outcome changes only from "In Progress" to
\* "Completed" or "Failed", and never after that.
OutcomeStartsInProgress ==
    /\ [](\A r \in RunIds :
            /\ \A mailbox \in procs[r].inflight :
                   \E k \in OutcomesOf(r, mailbox) : Outcomes(r)[k].Status = "In Progress"
            /\ sessions[r].stats.InProgress = Cardinality(procs[r].inflight))
    /\ [][\A r \in RunIds : \A k \in 1..Len(Outcomes(r)) :
            sessions'[r].migrationResults[k] # Outcomes(r)[k]
            => /\ Outcomes(r)[k].Status = "In Progress"
               /\ sessions'[r].migrationResults[k].Status \in {"Completed", "Failed"}]_vars

\* C21: from its creation on, a session's stats equal the aggregation
\* recomputed from its current outcome list (Total the number of outcomes,
\* Successful, Failed and InProgress the number of outcomes with that
\* status, Skipped 0).
StatsIsRecomputation ==
    \A r \in RunIds :
        Started(r) => sessions[r].stats = CalculateStats(sessions[r].migrationResults)

\* the batch in which an item was started
BatchOf(r, mailbox) ==
    CHOOSE b \in 1..Len(procs[r].batches) : mailbox \in Range(procs[r].batches[b])

\* C22: outcomes are appended in the order in which the mover calls
\* finish: the step in which an item's mover call settles puts that item's
\* outcome at the end of migrationResults and leaves the earlier outcomes in
\* place, whatever the item's position in the input; and an outcome of an
\* earlier batch always precedes an outcome of a later batch.
OutcomesInCompletionOrder ==
    /\ [][\A r \in RunIds : \A mailbox \in procs[r].inflight :
             mailbox \notin procs'[r].inflight
             => /\ Len(sessions'[r].migrationResults) = Len(Outcomes(r)) + 1
                /\ SubSeq(sessions'[r].migrationResults, 1, Len(Outcomes(r))) = Outcomes(r)
                /\ sessions'[r].migrationResults[Len(Outcomes(r)) + 1].mailbox = mailbox]_vars
    /\ [](\A r \in RunIds : \A j \in 1..Len(Outcomes(r)), k \in 1..Len(Outcomes(r)) :
             j < k => BatchOf(r, Outcomes(r)[j].mailbox) <= BatchOf(r, Outcomes(r)[k].mailbox))

\* a batch of two in which the second item finished first, followed by the
\* batch of the third item: the outcomes are those of items 2, 1, 3
CompletionOrderWitness ==
    \E r \in RunIds :
        /\ procs[r].batches = <<(<<1, 2>>), (<<3>>)>>
        /\ Len(Outcomes(r)) = 3
        /\ Outcomes(r)[1].mailbox = 2
        /\ Outcomes(r)[2].mailbox = 1
        /\ Outcomes(r)[3].mailbox = 3

\* the mover calls made for an item so far that have settled
SettledCalls(r, mailbox) == {x \in procs[r].settled : x[1] = mailbox}

\* C23: no update is lost when the items of a batch complete concurrently.
\* Whatever the order in which the mover calls of a batch settle, once none
\* is pending every item of every batch started so far has had exactly one
\* mover call and has exactly one outcome in the session, and stats counts
\* each of them: Successful and Failed are the numbers of Completed and
\* Failed outcomes.
NoLostUpdate ==
    \A r \in RunIds :
        (Started(r) /\ procs[r].inflight = {})
        => /\ \A b \in 1..Len(procs[r].batches) : \A mailbox \in Range(procs[r].batches[b]) :
                 /\ Cardinality(SettledCalls(r, mailbox)) = 1
                 /\ Cardinality(OutcomesOf(r, mailbox)) = 1
           /\ sessions[r].stats.Successful = CountStatus(Outcomes(r), "Completed")
           /\ sessions[r].stats.Failed = CountStatus(Outcomes(r), "Failed")
           /\ StatsSum(sessions[r].stats) = Len(Outcomes(r))

\* a batch of two whose mover calls settled in the order 2, 1, the first
\* of them rejecting, and then the batch of the third item: three
\* outcomes, one failed and two completed
NoLostUpdateWitness ==
    \E r \in RunIds :
        /\ procs[r].batches = <<(<<1, 2>>), (<<3>>)>>
        /\ procs[r].inflight = {}
        /\ Len(Outcomes(r)) = 3
        /\ Outcomes(r)[1].mailbox = 2 /\ <<2, "throws">> \in procs[r].settled
        /\ Outcomes(r)[2].mailbox = 1 /\ Outcomes(r)[2].Status = "Completed"
        /\ Outcomes(r)[3].mailbox = 3 /\ Outcomes(r)[3].Status = "Completed"
        /\ sessions[r].stats.Successful = 2
        /\ sessions[r].stats.Failed = 1

\* C24: an error raised for an item outside the per-item try block does
\* not abort the run: every started migration with a positive BatchSize
\* reaches "completed" with an outcome for every record of its list, the
\* items after the failing one and the following batches included.
EscapedErrorDoesNotAbort ==
    \A r \in RunIds :
        (Started(r) /\ PositiveBatchSize(r))
            ~> (/\ sessions[r].status = "completed"
                /\ \A mailbox \in Range(sessions[r].mailboxList) \ procs[r].nulls :
                       Cardinality(OutcomesOf(r, mailbox)) = 1)

\* the events a step added to a stream
NewEvents(s) == SubSeq(streams'[s].events, Len(streams[s].events) + 1, Len(streams'[s].events))

\* the run whose session the store holds under the id a stream watches
Watched(s) == activeSessions[streams[s].sessionId]

\* C25: when the timer of a connected stream fires and the session stored
\* under the stream's id has reached a terminal status, the stream emits a
\* complete event as its last event, the only one of the stream, whose
\* payload holds every outcome of that session and every log entry
\* recorded for it, the final summary entry included, and the stream closes.
CompleteCarriesFullHistory ==
    [][\A s \in Streams :
          (/\ streams[s].interval
           /\ streams'[s].ticks = streams[s].ticks + 1
           /\ Watched(s) # None
           /\ sessionLoggers[streams[s].sessionId] # None
           /\ sessions[Watched(s)].status \in {"completed", "error"})
          => /\ NewEvents(s) # << >>
             /\ LET last == NewEvents(s)[Len(NewEvents(s))]
                IN  /\ last.type = "complete"
                    /\ last.data.session.migrationResults = Outcomes(Watched(s))
                    /\ last.data.logs = loggers[Watched(s)]
                    /\ last.data.logs # << >>
                    /\ last.data.logs[Len(last.data.logs)].message = "Migration Complete!"
             /\ Cardinality({k \in 1..Len(streams'[s].events) :
                                streams'[s].events[k].type = "complete"}) = 1
             /\ streams'[s].st = "closed"
             /\ ~streams'[s].interval]_vars

\* the event names the dashboard's EventSource has a listener for
DashboardListeners == {"log", "progress", "complete"}

\* C26: each log, progress and complete message of a progress stream is an
\* SSE event named after its type, so that the dashboard's listener of
\* that name runs for it.
EventsNamedAfterType ==
    \A s \in Streams : \A k \in 1..Len(streams[s].events) :
        streams[s].events[k].type \in DashboardListeners
        => /\ streams[s].events[k].event = streams[s].events[k].type
           /\ streams[s].events[k].event \in DashboardListeners

\* the log entries a stream has delivered, in the order of delivery
LogEventsOf(s) ==
    LET logEvents == SelectSeq(streams[s].events, LAMBDA e : e.type = "log")
    IN  [k \in 1..Len(logEvents) |-> logEvents[k].data.log]

\* C27: the log entries recorded for a session while a consumer is
\* connected are delivered one log event each, in the order recorded and
\* without duplicates: the entries a stream has delivered are a run of
\* consecutive entries of the session's log.
LogsDeliveredOnceInOrder ==
    \A s \in Streams :
        (streams[s].st # "idle" /\ sessionLoggers[streams[s].sessionId] # None)
        => LET delivered == LogEventsOf(s)
               recorded == loggers[sessionLoggers[streams[s].sessionId]]
           IN  \E offset \in 0..Len(recorded) :
                   /\ offset + Len(delivered) <= Len(recorded)
                   /\ \A k \in 1..Len(delivered) : delivered[k] = recorded[offset + k]

\* C28: once a start request was accepted for a sessionId, the store entry
\* of that id refers to the session of the latest request: it never goes
\* back to the session of an earlier run.
StoreKeepsLatestRun ==
    [][\A sessionId \in SessionIds :
          activeSessions'[sessionId] >= activeSessions[sessionId]]_vars

\* -------------------------------------------------- start request failures
\* What the body of a start request can be: text that is not JSON, or JSON
\* with or without a config.
Bodies == {"invalid", "json"}
Configs == {"missing", "object"}

\* POST /api/migrate with a sessionId, an array of n records and no config:
\* the logger and the session are registered, then reading config.BatchSize
\* for the first log entry throws and the handler's catch answers 500;
\* processMigration is never called.
PostWithoutConfig(sessionId, n) ==
    /\ nextRun < MaxRuns
    /\ LET r == nextRun + 1
       IN  /\ sessions' = [sessions EXCEPT ![r] =
                              [id |-> sessionId, BatchSize |-> NaN,
                               mailboxList |-> [k \in 1..n |-> k],
                               migrationResults |-> << >>,
                               stats |-> [Total |-> n, Successful |-> 0, Failed |-> 0,
                                          Skipped |-> 0, InProgress |-> 0],
                               status |-> "migrating", endTime |-> FALSE]]
           /\ sessionLoggers' = [sessionLoggers EXCEPT ![sessionId] = r]
           /\ activeSessions' = [activeSessions EXCEPT ![sessionId] = r]
           /\ nextRun' = r
    /\ http' = JsonError("migrate", 500, "Failed to start migration")
    /\ UNCHANGED <<procs, loggers, streams, validations, dashboard>>

\* POST /api/migrate with any body: reading the body, the parameter check,
\* then the start of the migration
StartRequest(body, sessionId, mailboxList, config, n, bs) ==
    IF body = "invalid"
    THEN /\ http' = JsonError("migrate", 500, "Failed to start migration")
         /\ UNCHANGED <<serverVars, streams, validations, dashboard>>
    ELSE IF sessionId # Absent /\ mailboxList = "array" /\ config = "missing"
         THEN PostWithoutConfig(sessionId, n)
         ELSE MigrateRequest(sessionId, mailboxList, n, bs)

\* Start requests of every kind, until one has registered a session, and
\* the migration it starts.
NextStart ==
    \/ /\ nextRun < MaxFairRuns
       /\ \E body \in Bodies, sessionId \in SessionIds \cup {Absent},
             mailboxList \in ListInputs, config \in Configs, n \in 0..MaxN,
             bs \in BatchSizes :
              StartRequest(body, sessionId, mailboxList, config, n, bs)
    \/ \E r \in RunIds, mailbox \in 1..MaxItems, outcome \in MoverOutcomes :
           Complete(r, mailbox, outcome)
    \/ \E r \in RunIds : PauseElapsed(r)

StartSpec == Init /\ [][NextStart]_vars

\* C29: a start request that is answered with status 400 or 500 leaves the
\* store as it was: no session and no logger is registered and no batch
\* loop is started, so every stored session in status migrating has a
\* batch loop.
ErrorResponseLeavesStoreUnchanged ==
    [][(http' # http /\ http'.endpoint = "migrate" /\ http'.status \in {400, 500})
       => /\ UNCHANGED <<activeSessions, sessionLoggers, procs>>
          /\ \A sessionId \in SessionIds :
                (/\ activeSessions'[sessionId] # None
                 /\ sessions'[activeSessions'[sessionId]].status = "migrating")
                => procs'[activeSessions'[sessionId]].pc # "unused"]_vars

\* C30: each progress stream is closed exactly once: controller.close() is
\* called once for a closed stream and never a second time, whether the
\* stream closed on a complete or error event or on a disconnect.
StreamClosedExactlyOnce ==
    \A s \in Streams :
        /\ streams[s].closeCalls <= 1
        /\ streams[s].st = "closed" => streams[s].closeCalls = 1
====
